---- MODULE Spec2Model ----
(***************************************************************************)
(* FRAMELAB page controller (src/framelab.js): the pointer follower, the   *)
(* tilt card ("reel"), the scroll reveal, the stat count-up and the        *)
(* visibility / reduced-motion policy, as one state machine.               *)
(*                                                                         *)
(* Numbers are fixed point: a length, an angle or a percentage v is held   *)
(* as the integer v * Scale, spring factors are held in hundredths.        *)
(* The platform is modelled by its contract: requestAnimationFrame queues  *)
(* a callback under a fresh handle, an animation frame runs the callbacks  *)
(* that were queued when it began, a hidden document gets no animation     *)
(* frame, and the scroll observer delivers the directional callbacks.      *)
(***************************************************************************)
EXTENDS Integers, Sequences, FiniteSets, TLC

VARIABLES
  \* environment, read by boot()
  reducedMotion, hoverNone, mobile, hidden, dom,
  \* requestAnimationFrame: callbacks queued, callbacks of the running frame, clock
  rafQ, frameQ, now,
  \* the last two events or callbacks that ran, and the pointer / key inputs so far
  last, prev, inputs,
  \* initCursor closure
  cursorInit, mx, my, rx, ry, ringRafId, dotTf, ringTf,
  \* initReel closure
  reelInit, tX, tY, targX, targY, gX, gY, targGX, targGY, hovering, visible, rafId,
  \* initReel presentation writes
  cardTf, glareBg, shadowSt, ddTf, threw,
  \* initScrollReveal
  revealTrig, past, revealOn, revealFired, willChange, timers,
  \* initStats
  dataCount, statsTrig, statText, startTs, statRuns,
  \* decorative CSS animations, hero entrance
  playState, heroSt,
  \* the last application of lerp on its own: its arguments and its result
  probe

envVars    == <<reducedMotion, hoverNone, mobile, dom, probe>>
cursorVars == <<cursorInit, mx, my, rx, ry, ringRafId, dotTf, ringTf>>
targVars   == <<targX, targY, targGX, targGY>>
springVars == <<tX, tY, gX, gY>>
outVars    == <<cardTf, glareBg, shadowSt, ddTf>>
reelVars   == <<reelInit, targVars, springVars, hovering, visible, rafId, outVars, threw>>
revealVars == <<revealTrig, past, revealOn, revealFired, willChange, timers>>
statVars   == <<dataCount, statsTrig, statText, startTs, statRuns>>
vars == <<envVars, hidden, rafQ, frameQ, now, last, prev, inputs, cursorVars, reelVars,
          revealVars, statVars, playState, heroSt>>

(***************************************************************************)
(* Bounds of the model.                                                    *)
(***************************************************************************)
Scale == 1000          \* fixed-point units per pixel, degree or per cent
MaxFramesCursor == 4   \* animation frames explored for the pointer follower
MaxFramesReel == 4     \* animation frames explored for the tilt card
MaxInputsReel == 3     \* pointer events explored for the tilt card
MaxInputsKeys == 6     \* pointer and key events explored for the keyboard tilt
MaxFramesReduced == 1  \* animation frames explored under reduced motion
MaxInputsReduced == 1  \* pointer and key events explored under reduced motion

(***************************************************************************)
(* Arithmetic.                                                             *)
(***************************************************************************)
Abs(x) == IF x < 0 THEN -x ELSE x
Min(a, b) == IF a < b THEN a ELSE b
Max(a, b) == IF a > b THEN a ELSE b

\* n / d rounded to the nearest integer, halves away from zero (d > 0): the
\* rounding of a float result to the fixed-point grid.
RDiv(n, d) ==
  IF n >= 0 THEN (2 * n + d) \div (2 * d) ELSE -((2 * (-n) + d) \div (2 * d))

\* a + (b - a) * t, with t in hundredths
lerp_far(a, b, t) == a - RDiv((b - a) * t, 100)
lerp(a, b, t) == a + RDiv((b - a) * t, 100)

(***************************************************************************)
(* requestAnimationFrame / cancelAnimationFrame.                           *)
(***************************************************************************)
NoHandle == 0

Handles(q) == {q[i].h : i \in 1..Len(q)}

\* the handle requestAnimationFrame returns: one that identifies no queued
\* callback and that no closure still holds
FreshHandle ==
  LET used == Handles(rafQ) \cup Handles(frameQ) \cup {ringRafId, rafId}
  IN  CHOOSE h \in 1..(Cardinality(used) + 1) :
        h \notin used /\ \A k \in 1..(h - 1) : k \in used

\* a handle above every handle in use, for a run of requests
FreshFrom ==
  LET used == Handles(rafQ) \cup Handles(frameQ) \cup {ringRafId, rafId}
  IN  1 + CHOOSE m \in used : \A k \in used : k <= m

Callback(fn, h, el) == [fn |-> fn, h |-> h, el |-> el]

cancelAnimationFrame(q, h) == SelectSeq(q, LAMBDA c : c.h # h)

Pending(fn) ==
  Cardinality({i \in 1..Len(rafQ) : rafQ[i].fn = fn}) +
  Cardinality({i \in 1..Len(frameQ) : frameQ[i].fn = fn})

(***************************************************************************)
(* The page.                                                               *)
(***************************************************************************)
CursorEls == {"curDot", "curRing"}
ReelEls   == {"reelStage", "reelCard", "reelGlare", "reelShadow", "dd1", "dd2", "dd3"}
Decorators == {"dd1", "dd2", "dd3"}
AllEls    == CursorEls \cup ReelEls \cup {"heroBottom"}
RevealEls == {"r1", "r2", "r3"}
StatEls   == {"s1", "s2"}
PausedByReducedMotion == {"ticker-track", "testi-track", "blob"}
PausedByVisibility == PausedByReducedMotion \cup {"hero-ambient", "reel-cine-bg"}

\* stage.getBoundingClientRect()
StageRect == [left |-> 0, top |-> 0, width |-> 400, height |-> 300]

\* mouse positions (clientX, clientY) dispatched to the document and the stage
Points == {<<100, 100>>, <<200, 0>>}

\* data-count attribute values of the stat elements, as character sequences
\* (the empty sequence also stands for a missing attribute)
AttrValues == {<< >>, <<"0">>, <<"7">>, <<"1", "2">>, <<"-", "3">>, <<"x">>, <<"4", "k">>}
StatSuffix == [e \in StatEls |-> IF e = "s1" THEN "+" ELSE ""]

\* frame intervals (ms) of the animation clock
Deltas == {200, 500, 1100}
FirstFrame == 1000

(***************************************************************************)
(* CFG of initReel and the other literals of the source.                   *)
(***************************************************************************)
maxTilt == 16
restTiltX == 8
restOffset == 2
springHover == 9
springRest == 5
springGlare == 7
springRing == 12
keyStep == 4
restGX == 32
restGY == 22
offscreen == -100
dur == 2200
depthScale == 22

(***************************************************************************)
(* boot(): the state once every init function has run.                     *)
(***************************************************************************)
\* initCursor registers its listeners and starts the ring loop
initCursor_ignoresElements(hn, els) == ~hn
initCursor(hn, els) == ~hn /\ CursorEls \subseteq els

\* initReel registers its listeners and its scroll trigger
initReel_ignoresReducedMotion(rm, mob, els) == {"reelStage", "reelCard"} \subseteq els /\ ~mob
initReel(rm, mob, els) == {"reelStage", "reelCard"} \subseteq els /\ ~(mob \/ rm)

\* initScrollReveal registers one trigger per .reveal element
initScrollReveal_always(rm) == TRUE
initScrollReveal(rm) == ~rm

\* initStats registers the count-up trigger
initStats(els) == "heroBottom" \in els

\* applyReducedMotion: the inline animation-play-state of the decorative elements
applyReducedMotion(rm) ==
  [d \in PausedByVisibility |->
     IF rm /\ d \in PausedByReducedMotion THEN "paused" ELSE "css"]

\* initHeroEntrance: whether the entrance timeline was started, and the inline
\* opacity and transform of the hero elements ("css": left to the stylesheet)
HeroBlocks == {"heroEyebrow", "heroBottom"}
HeroSpans == {"hl1 span", "hl2 span", "hl3 span"}
initHeroEntrance(rm) ==
  [timeline |-> ~rm,
   style |-> [h \in HeroBlocks \cup HeroSpans |->
                IF ~rm THEN [opacity |-> "css", transform |-> "css"]
                ELSE IF h \in HeroBlocks THEN [opacity |-> "1", transform |-> "css"]
                ELSE [opacity |-> "1", transform |-> "none"]]]

Boot(rm, hn, mob, hid, els, attrs) ==
  /\ reducedMotion = rm /\ hoverNone = hn /\ mobile = mob /\ hidden = hid /\ dom = els
  /\ probe = << >>
  /\ now = FirstFrame /\ frameQ = << >> /\ last = "boot" /\ prev = "boot" /\ inputs = 0
  \* initCursor
  /\ cursorInit = initCursor(hn, els)
  /\ mx = offscreen * Scale /\ my = offscreen * Scale
  /\ rx = offscreen * Scale /\ ry = offscreen * Scale
  /\ ringRafId = IF initCursor(hn, els) THEN 1 ELSE NoHandle
  /\ rafQ = IF initCursor(hn, els) THEN <<Callback("animateRing", 1, "curRing")>> ELSE << >>
  /\ dotTf = << >> /\ ringTf = << >>
  \* initReel
  /\ reelInit = initReel(rm, mob, els)
  /\ tX = restTiltX * Scale /\ tY = 0
  /\ targX = restTiltX * Scale /\ targY = 0
  /\ gX = restGX * Scale /\ gY = restGY * Scale
  /\ targGX = restGX * Scale /\ targGY = restGY * Scale
  /\ hovering = FALSE /\ visible = FALSE /\ rafId = NoHandle
  /\ cardTf = << >> /\ glareBg = << >> /\ shadowSt = << >>
  /\ ddTf = [d \in Decorators |-> << >>]
  /\ threw = FALSE
  \* initScrollReveal
  /\ revealTrig = [e \in RevealEls |-> IF initScrollReveal(rm) THEN "live" ELSE "none"]
  /\ past = [e \in RevealEls |-> FALSE]
  /\ revealOn = [e \in RevealEls |-> FALSE]
  /\ revealFired = [e \in RevealEls |-> 0]
  /\ willChange = [e \in RevealEls |-> "css"]
  /\ timers = {}
  \* initStats
  /\ dataCount = attrs
  /\ statsTrig = IF initStats(els) THEN "live" ELSE "none"
  /\ statText = [e \in StatEls |-> << >>]
  /\ startTs = [e \in StatEls |-> 0]
  /\ statRuns = [e \in StatEls |-> 0]
  \* applyReducedMotion, initHeroEntrance
  /\ playState = applyReducedMotion(rm)
  /\ heroSt = initHeroEntrance(rm)

DefaultAttrs == [e \in StatEls |-> <<"7">>]

\* bookkeeping of every event and callback
Mark(name) == last' = name /\ prev' = last

(***************************************************************************)
(* Animation frames.                                                       *)
(***************************************************************************)
\* The browser begins an animation frame: the callbacks queued so far are the
\* ones it will run; a hidden document is given no frame.
FrameStart(d) ==
  /\ frameQ = << >> /\ rafQ # << >> /\ ~hidden
  /\ frameQ' = rafQ /\ rafQ' = << >>
  /\ now' = now + d
  /\ Mark("frame")
  /\ UNCHANGED <<envVars, hidden, inputs, cursorVars, reelVars, revealVars, statVars,
                 playState, heroSt>>

(***************************************************************************)
(* MODULE: CUSTOM CURSOR                                                    *)
(***************************************************************************)
\* document 'mousemove' (line 40): the dot follows instantly
DocMouseMove_snap(p) ==
  /\ frameQ = << >>
  /\ Mark("docmousemove")
  /\ IF cursorInit
       THEN /\ mx' = p[1] * Scale /\ my' = p[2] * Scale
            /\ dotTf' = <<p[1] * Scale, p[2] * Scale>>
            /\ rx' = p[1] * Scale /\ ry' = p[2] * Scale
       ELSE UNCHANGED <<mx, my, dotTf, rx, ry>>
  /\ UNCHANGED <<envVars, hidden, rafQ, frameQ, now, inputs, cursorInit,
                 ringRafId, ringTf, reelVars, revealVars, statVars, playState, heroSt>>
DocMouseMove(p) ==
  /\ frameQ = << >>
  /\ Mark("docmousemove")
  /\ IF cursorInit
       THEN /\ mx' = p[1] * Scale /\ my' = p[2] * Scale
            /\ dotTf' = <<p[1] * Scale, p[2] * Scale>>
       ELSE UNCHANGED <<mx, my, dotTf>>
  /\ UNCHANGED <<envVars, hidden, rafQ, frameQ, now, inputs, cursorInit, rx, ry,
                 ringRafId, ringTf, reelVars, revealVars, statVars, playState, heroSt>>

\* animateRing (line 47), run by the frame as its next callback
animateRing ==
  /\ frameQ # << >> /\ Head(frameQ).fn = "animateRing"
  /\ frameQ' = Tail(frameQ)
  /\ rx' = lerp(rx, mx, springRing)
  /\ ry' = lerp(ry, my, springRing)
  /\ ringTf' = <<rx', ry'>>
  /\ ringRafId' = FreshHandle
  /\ rafQ' = Append(rafQ, Callback("animateRing", FreshHandle, "curRing"))
  /\ Mark("animateRing")
  /\ UNCHANGED <<envVars, hidden, now, inputs, cursorInit, mx, my, dotTf, reelVars,
                 revealVars, statVars, playState, heroSt>>

\* the cursor's 'visibilitychange' listener (line 73): the queue and the handle after it
cursorVisibility_cancelFirst(nowHidden) ==
  IF ~cursorInit THEN <<rafQ, ringRafId>>
  ELSE IF nowHidden THEN <<cancelAnimationFrame(rafQ, ringRafId), ringRafId>>
  ELSE <<Append(cancelAnimationFrame(rafQ, ringRafId),
                Callback("animateRing", FreshHandle, "curRing")), FreshHandle>>
cursorVisibility(nowHidden) ==
  IF ~cursorInit THEN <<rafQ, ringRafId>>
  ELSE IF nowHidden THEN <<cancelAnimationFrame(rafQ, ringRafId), ringRafId>>
  ELSE <<Append(rafQ, Callback("animateRing", FreshHandle, "curRing")), FreshHandle>>

\* initVisibilityPause's listener (line 420)
initVisibilityPause(nowHidden) ==
  [d \in PausedByVisibility |-> IF nowHidden THEN "paused" ELSE "running"]

\* document 'visibilitychange': the tab is backgrounded or foregrounded, and both
\* listeners run
VisibilityChange ==
  /\ frameQ = << >>
  /\ hidden' = ~hidden
  /\ rafQ' = cursorVisibility(~hidden)[1]
  /\ ringRafId' = cursorVisibility(~hidden)[2]
  /\ playState' = initVisibilityPause(~hidden)
  /\ Mark("visibilitychange")
  /\ UNCHANGED <<envVars, frameQ, now, inputs, cursorInit, mx, my, rx, ry, dotTf, ringTf,
                 reelVars, revealVars, statVars, heroSt>>

(***************************************************************************)
(* MODULE: 3D SHOWREEL                                                      *)
(***************************************************************************)
\* startLoop / stopLoop (lines 319-320): the queue and rafId after the call
startLoop_always == <<Append(rafQ, Callback("tick", FreshHandle, "reelCard")), FreshHandle>>
startLoop ==
  IF rafId = NoHandle
    THEN <<Append(rafQ, Callback("tick", FreshHandle, "reelCard")), FreshHandle>>
    ELSE <<rafQ, rafId>>

stopLoop_keepsCallback == <<rafQ, NoHandle>>
stopLoop ==
  IF rafId # NoHandle
    THEN <<cancelAnimationFrame(rafQ, rafId), NoHandle>>
    ELSE <<rafQ, rafId>>

EnterCallbacks == {"onEnter", "onEnterBack"}
LeaveCallbacks == {"onLeave", "onLeaveBack"}

\* the four callbacks of the stage's ScrollTrigger (lines 323-331)
ReelScroll(cb) ==
  /\ frameQ = << >>
  /\ Mark(cb)
  /\ IF ~reelInit THEN UNCHANGED <<visible, rafQ, rafId>>
     ELSE IF cb \in EnterCallbacks
       THEN visible' = TRUE /\ rafQ' = startLoop[1] /\ rafId' = startLoop[2]
       ELSE visible' = FALSE /\ rafQ' = stopLoop[1] /\ rafId' = stopLoop[2]
  /\ UNCHANGED <<envVars, hidden, frameQ, now, inputs, cursorVars, reelInit, targVars,
                 springVars, hovering, outVars, threw, revealVars, statVars,
                 playState, heroSt>>

\* stage 'mouseenter' (line 237)
StageMouseEnter ==
  /\ frameQ = << >>
  /\ Mark("mouseenter")
  /\ inputs' = inputs + 1
  /\ hovering' = (reelInit \/ hovering)
  /\ UNCHANGED <<envVars, hidden, rafQ, frameQ, now, cursorVars, reelInit, targVars,
                 springVars, visible, rafId, outVars, threw, revealVars, statVars,
                 playState, heroSt>>

\* stage 'mouseleave' (line 239)
StageMouseLeave ==
  /\ frameQ = << >>
  /\ Mark("mouseleave")
  /\ inputs' = inputs + 1
  /\ IF reelInit
       THEN /\ hovering' = FALSE
            /\ targX' = restTiltX * Scale /\ targY' = 0
            /\ targGX' = restGX * Scale /\ targGY' = restGY * Scale
       ELSE UNCHANGED <<hovering, targVars>>
  /\ UNCHANGED <<envVars, hidden, rafQ, frameQ, now, cursorVars, reelInit,
                 springVars, visible, rafId, outVars, threw, revealVars, statVars,
                 playState, heroSt>>

\* the targets a pointer position sets (lines 248-254)
MoveTargX(p) ==
  RDiv((-(2 * (p[2] - StageRect.top) - StageRect.height) * maxTilt
        + restOffset * StageRect.height) * Scale, StageRect.height)
MoveTargY(p) ==
  RDiv((2 * (p[1] - StageRect.left) - StageRect.width) * maxTilt * Scale, StageRect.width)
MoveTargGX(p) == RDiv((p[1] - StageRect.left) * 100 * Scale, StageRect.width)
MoveTargGY(p) == RDiv((p[2] - StageRect.top) * 100 * Scale, StageRect.height)

\* stage 'mousemove' (line 247)
StageMouseMove(p) ==
  /\ frameQ = << >>
  /\ Mark("mousemove")
  /\ inputs' = inputs + 1
  /\ IF reelInit
       THEN /\ targX' = MoveTargX(p) /\ targY' = MoveTargY(p)
            /\ targGX' = MoveTargGX(p) /\ targGY' = MoveTargGY(p)
       ELSE UNCHANGED targVars
  /\ UNCHANGED <<envVars, hidden, rafQ, frameQ, now, cursorVars, reelInit,
                 springVars, hovering, visible, rafId, outVars, threw, revealVars,
                 statVars, playState, heroSt>>

Keys == {"ArrowLeft", "ArrowRight", "ArrowUp", "ArrowDown", "Enter"}

\* Math.max(-CFG.maxTilt, Math.min(CFG.maxTilt, v)) (lines 265-266)
Clamp_none(v) == v
Clamp(v) == Max(-maxTilt * Scale, Min(maxTilt * Scale, v))

\* the targets after a key (lines 259-266)
KeyTargY_step5(k) ==
  Clamp(IF k = "ArrowLeft" THEN targY - (keyStep + 1) * Scale
        ELSE IF k = "ArrowRight" THEN targY + (keyStep + 1) * Scale ELSE targY)
KeyTargY(k) ==
  Clamp(IF k = "ArrowLeft" THEN targY - keyStep * Scale
        ELSE IF k = "ArrowRight" THEN targY + keyStep * Scale ELSE targY)
KeyTargX(k) ==
  Clamp(IF k = "ArrowUp" THEN targX + keyStep * Scale
        ELSE IF k = "ArrowDown" THEN targX - keyStep * Scale ELSE targX)

\* card 'keydown' (line 258)
CardKeyDown(k) ==
  /\ frameQ = << >>
  /\ Mark(k)
  /\ inputs' = inputs + 1
  /\ IF reelInit
       THEN targY' = KeyTargY(k) /\ targX' = KeyTargX(k)
       ELSE UNCHANGED <<targX, targY>>
  /\ UNCHANGED <<envVars, hidden, rafQ, frameQ, now, cursorVars, reelInit, targGX, targGY,
                 springVars, hovering, visible, rafId, outVars, threw, revealVars,
                 statVars, playState, heroSt>>

\* "close enough to rest" (lines 276-279)
settled_early == ~hovering
settled_never == FALSE
settled ==
  /\ ~hovering
  /\ Abs(tX - targX) * 100 < Scale
  /\ Abs(tY - targY) * 100 < Scale

\* the presentation values tick derives (lines 288-313), in the units of toFixed
gOp == IF hovering THEN 1000 ELSE 350                  \* 0.10 : 0.035, in 1/10000
GlareBg(x, y) == <<x, y, RDiv(gOp * 16, 100), RDiv(gOp * 5, 100)>>   \* toFixed(3)
ShadowSt(x, y) ==
  <<RDiv(-y * 220, Scale), RDiv(x * 250, Scale) + 3200,               \* toFixed(2)
    IF hovering THEN 65 ELSE 32>>
ParallaxX(y) == RDiv(y * depthScale * 52, 1000)
ParallaxY(x) == RDiv(-x * depthScale * 52, 1000)
DdTf(d, x, y) ==
  LET k == IF d = "dd1" THEN -17 ELSE IF d = "dd2" THEN 21 ELSE -13
  IN  <<RDiv(ParallaxX(y) * k * 10, Scale), RDiv(ParallaxY(x) * k * 10, Scale)>>

\* tick (line 270), run by the frame as its next callback
tick ==
  /\ frameQ # << >> /\ Head(frameQ).fn = "tick"
  /\ frameQ' = Tail(frameQ)
  /\ IF ~visible
       THEN /\ rafId' = NoHandle
            /\ Mark("tick:hidden")
            /\ UNCHANGED <<rafQ, springVars, outVars, threw>>
     ELSE IF settled
       THEN /\ rafId' = FreshHandle
            /\ rafQ' = Append(rafQ, Callback("tick", FreshHandle, "reelCard"))
            /\ Mark("tick:idle")
            /\ UNCHANGED <<springVars, outVars, threw>>
     ELSE LET sp == IF hovering THEN springHover ELSE springRest
              x == lerp(tX, targX, sp)
              y == lerp(tY, targY, sp)
              u == lerp(gX, targGX, springGlare)
              v == lerp(gY, targGY, springGlare)
          IN  /\ tX' = x /\ tY' = y /\ gX' = u /\ gY' = v
              /\ cardTf' = <<x, y>>
              /\ IF "reelGlare" \in dom
                   THEN /\ glareBg' = GlareBg(u, v)
                        /\ shadowSt' = IF "reelShadow" \in dom THEN ShadowSt(x, y)
                                       ELSE shadowSt
                        /\ ddTf' = [d \in Decorators |->
                                      IF d \in dom THEN DdTf(d, x, y) ELSE ddTf[d]]
                        /\ rafId' = FreshHandle
                        /\ rafQ' = Append(rafQ, Callback("tick", FreshHandle, "reelCard"))
                        /\ Mark("tick:step")
                        /\ UNCHANGED threw
                   \* glareEl is null: the write at line 292 throws and tick is left
                   ELSE /\ threw' = TRUE
                        /\ Mark("tick:throw")
                        /\ UNCHANGED <<glareBg, shadowSt, ddTf, rafId, rafQ>>
  /\ UNCHANGED <<envVars, hidden, now, inputs, cursorVars, reelInit, targVars, hovering,
                 visible, revealVars, statVars, playState, heroSt>>

(***************************************************************************)
(* MODULE: SCROLL REVEAL                                                    *)
(***************************************************************************)
\* once: true (line 187): the trigger is removed once onEnter has run
revealOnce_off == FALSE
revealOnce == TRUE

\* The top of .reveal element e crosses the 'top 88%' line, downwards or back
\* up; a live trigger answers a downward crossing with onEnter (lines 188-192).
RevealCross(e, down) ==
  /\ frameQ = << >>
  /\ past[e] = ~down
  /\ past' = [past EXCEPT ![e] = down]
  /\ Mark(IF down THEN "crossDown" ELSE "crossUp")
  /\ IF down /\ revealTrig[e] = "live"
       THEN /\ revealOn' = [revealOn EXCEPT ![e] = TRUE]
            /\ revealFired' = [revealFired EXCEPT ![e] = @ + 1]
            /\ timers' = timers \cup {e}
            /\ revealTrig' = [revealTrig EXCEPT ![e] = IF revealOnce THEN "killed" ELSE @]
       ELSE UNCHANGED <<revealOn, revealFired, timers, revealTrig>>
  /\ UNCHANGED <<envVars, hidden, rafQ, frameQ, now, inputs, cursorVars, reelVars,
                 willChange, statVars, playState, heroSt>>

\* the setTimeout of line 191 fires
RevealTimeout(e) ==
  /\ frameQ = << >>
  /\ e \in timers
  /\ timers' = timers \ {e}
  /\ willChange' = [willChange EXCEPT ![e] = "auto"]
  /\ Mark("timeout")
  /\ UNCHANGED <<envVars, hidden, rafQ, frameQ, now, inputs, cursorVars, reelVars,
                 revealTrig, past, revealOn, revealFired, statVars, playState, heroSt>>

(***************************************************************************)
(* MODULE: STAT COUNT-UP                                                    *)
(***************************************************************************)
Digits == {"0", "1", "2", "3", "4", "5", "6", "7", "8", "9"}
DigitVal(c) ==
  CASE c = "0" -> 0 [] c = "1" -> 1 [] c = "2" -> 2 [] c = "3" -> 3 [] c = "4" -> 4
    [] c = "5" -> 5 [] c = "6" -> 6 [] c = "7" -> 7 [] c = "8" -> 8 [] c = "9" -> 9

\* the value of the longest prefix of digits of a, continuing from acc
RECURSIVE DigitPrefix(_, _)
DigitPrefix(a, acc) ==
  IF a = << >> \/ Head(a) \notin Digits THEN acc
  ELSE DigitPrefix(Tail(a), 10 * acc + DigitVal(Head(a)))

\* parseInt(a, 10): [nan |-> TRUE] when a does not begin with a number
parseInt(a) ==
  LET neg  == a # << >> /\ Head(a) = "-"
      body == IF a # << >> /\ Head(a) \in {"-", "+"} THEN Tail(a) ELSE a
  IN  IF body = << >> \/ Head(body) \notin Digits
        THEN [nan |-> TRUE, v |-> 0]
        ELSE [nan |-> FALSE,
              v |-> IF neg THEN -DigitPrefix(body, 0) ELSE DigitPrefix(body, 0)]

\* if (!target) return  (line 151)
animates_zero(e) == ~parseInt(dataCount[e]).nan
animates(e) == ~parseInt(dataCount[e]).nan /\ parseInt(dataCount[e]).v # 0

RECURSIVE GCD(_, _)
GCD(a, b) == IF b = 0 THEN a ELSE GCD(b, a % b)

\* Math.floor(ease * target), ease = 1 - (1 - p)^3, p = min(elapsed / dur, 1):
\* with r / d the lowest terms of 1 - p, that is target * (d^3 - r^3) / d^3
stepValue_linear(target, elapsed) == (target * Min(elapsed, dur)) \div dur
stepValue(target, elapsed) ==
  LET e == Min(elapsed, dur)
      g == GCD(dur, dur - e)
      d == dur \div g
      r == (dur - e) \div g
  IN  (target * (d * d * d - r * r * r)) \div (d * d * d)

\* the frame callbacks countUp queues: one per element that animates, in
\* document order (lines 164, 171)
RECURSIVE CountUps(_, _)
CountUps(els, h) ==
  IF els = << >> THEN << >>
  ELSE IF animates(Head(els))
    THEN <<Callback("step", h, Head(els))>> \o CountUps(Tail(els), h + 1)
    ELSE CountUps(Tail(els), h)

StatOrder == <<"s1", "s2">>

\* once: true (line 170): the trigger is removed once onEnter has run
statsOnce_off == FALSE
statsOnce == TRUE

\* The stats container crosses 'top 80%' downwards: a live trigger answers with
\* onEnter, which runs countUp on every .stat-num, and is removed (once: true).
StatsEnter ==
  /\ frameQ = << >>
  /\ Mark("statsEnter")
  /\ IF statsTrig = "live"
       THEN /\ statsTrig' = IF statsOnce THEN "killed" ELSE "live"
            /\ rafQ' = rafQ \o CountUps(StatOrder, FreshFrom)
            /\ statRuns' = [e \in StatEls |-> IF animates(e) THEN statRuns[e] + 1
                                              ELSE statRuns[e]]
       ELSE UNCHANGED <<statsTrig, rafQ, statRuns>>
  /\ UNCHANGED <<envVars, hidden, frameQ, now, inputs, cursorVars, reelVars, revealVars,
                 dataCount, statText, startTs, playState, heroSt>>

\* step(ts) of countUp (line 156), run by the frame as its next callback
step ==
  /\ frameQ # << >> /\ Head(frameQ).fn = "step"
  /\ LET el == Head(frameQ).el
         st == IF startTs[el] = 0 THEN now ELSE startTs[el]
         target == parseInt(dataCount[el]).v
     IN  /\ startTs' = [startTs EXCEPT ![el] = st]
         /\ statText' = [statText EXCEPT ![el] =
                           <<stepValue(target, now - st), StatSuffix[el]>>]
         /\ rafQ' = IF now - st < dur
                      THEN Append(rafQ, Callback("step", FreshHandle, el))
                      ELSE rafQ
  /\ frameQ' = Tail(frameQ)
  /\ Mark("step")
  /\ UNCHANGED <<envVars, hidden, now, inputs, cursorVars, reelVars, revealVars,
                 dataCount, statsTrig, statRuns, playState, heroSt>>

InitCursor ==
  \E hid \in BOOLEAN : Boot(FALSE, FALSE, FALSE, hid, AllEls, DefaultAttrs)

NextCursor ==
  \/ \E p \in Points : DocMouseMove(p)
  \/ VisibilityChange
  \/ (now < FirstFrame + MaxFramesCursor * 16 /\ FrameStart(16))
  \/ animateRing

SpecCursor == InitCursor /\ [][NextCursor]_vars

\* the tilt card on a desktop page without reduced motion
InitReel ==
  Boot(FALSE, TRUE, FALSE, FALSE, AllEls, DefaultAttrs)

KeysReel == {"ArrowRight"}

NextReel ==
  \/ \E cb \in EnterCallbacks \cup LeaveCallbacks : ReelScroll(cb)
  \/ (inputs < MaxInputsReel /\ StageMouseEnter)
  \/ (inputs < MaxInputsReel /\ StageMouseLeave)
  \/ (inputs < MaxInputsReel /\ \E p \in Points : StageMouseMove(p))
  \/ (inputs < MaxInputsReel /\ \E k \in KeysReel : CardKeyDown(k))
  \/ (now < FirstFrame + MaxFramesReel * 16 /\ FrameStart(16))
  \/ tick

SpecReel == InitReel /\ [][NextReel]_vars

\* the scroll reveal, with and without reduced motion
InitReveal ==
  \E rm \in BOOLEAN : Boot(rm, TRUE, TRUE, FALSE, AllEls, DefaultAttrs)

NextReveal ==
  \/ \E e \in RevealEls, down \in BOOLEAN : RevealCross(e, down)
  \/ \E e \in RevealEls : RevealTimeout(e)

SpecReveal == InitReveal /\ [][NextReveal]_vars

\* the count-up, for every pair of data-count attributes
InitStats ==
  \E attrs \in [StatEls -> AttrValues] : Boot(FALSE, TRUE, TRUE, FALSE, AllEls, attrs)

NextStats ==
  \/ StatsEnter
  \/ \E d \in Deltas : FrameStart(d)
  \/ step

SpecStats == InitStats /\ [][NextStats]_vars

\* the keyboard tilt: targets only, no frame
NextKeys ==
  \/ (inputs < MaxInputsKeys /\ \E k \in Keys : CardKeyDown(k))
  \/ (inputs < MaxInputsKeys /\ \E p \in Points : StageMouseMove(p))
  \/ (inputs < MaxInputsKeys /\ StageMouseLeave)

SpecKeys == InitReel /\ [][NextKeys]_vars

\* the whole page booted with the reduced-motion preference set
InitReduced ==
  \E hn \in BOOLEAN, mob \in BOOLEAN, hid \in BOOLEAN :
    Boot(TRUE, hn, mob, hid, AllEls, DefaultAttrs)

NextReduced ==
  \/ DocMouseMove(<<100, 100>>)
  \/ VisibilityChange
  \/ (now < FirstFrame + MaxFramesReduced * 16 /\ FrameStart(16))
  \/ animateRing
  \/ \E cb \in EnterCallbacks \cup LeaveCallbacks : ReelScroll(cb)
  \/ (inputs < MaxInputsReduced /\ StageMouseEnter)
  \/ (inputs < MaxInputsReduced /\ \E k \in KeysReel : CardKeyDown(k))
  \/ \E down \in BOOLEAN : RevealCross("r1", down)

SpecReduced == InitReduced /\ [][NextReduced]_vars

(***************************************************************************)
(* Properties.                                                             *)
(***************************************************************************)
TickMarks == {"tick:hidden", "tick:idle", "tick:step", "tick:throw"}
ArrowKeys == {"ArrowLeft", "ArrowRight", "ArrowUp", "ArrowDown"}

\* C1: whatever the tab's state when initCursor runs, and whatever visibility
\* changes and frames follow, at most one animateRing callback is pending.
C1_OneRingCallback == Pending("animateRing") <= 1

\* C2: no animateRing runs while the tab is backgrounded, backgrounding the tab
\* leaves no animateRing callback queued, and foregrounding it leaves exactly one.
C2_VisibilityPause ==
  /\ (last = "animateRing" => ~hidden)
  /\ (last = "visibilitychange" /\ hidden => Pending("animateRing") = 0)
  /\ (last = "visibilitychange" /\ ~hidden => Pending("animateRing") = 1)

\* C3: after any sequence of the stage's four scroll callbacks and frames, a tick
\* callback is pending exactly when the stage is visible, and tick passes its
\* visibility test only while the stage is visible.
C3_ViewportGating ==
  reelInit =>
    /\ (visible => Pending("tick") = 1)
    /\ (~visible => Pending("tick") = 0)
    /\ (last \in TickMarks \ {"tick:hidden"} => visible)

C3_Witness ==
  /\ last = "onEnterBack" /\ prev \in LeaveCallbacks
  /\ visible /\ Pending("tick") = 1
  /\ now > FirstFrame

\* C4: startLoop while the loop runs changes nothing (same queue, same handle),
\* every start leaves exactly one pending tick, which rafId names, every stop
\* leaves none, and there is never a second pending tick.
C4_SchedulerIdempotence ==
  [][reelInit =>
       /\ Pending("tick")' <= 1
       /\ (last \in EnterCallbacks /\ last' \in EnterCallbacks =>
             rafQ' = rafQ /\ rafId' = rafId)
       /\ (last' \in EnterCallbacks =>
             /\ Pending("tick")' = 1
             /\ rafId' # NoHandle /\ rafId' \in Handles(rafQ'))
       /\ (last' \in LeaveCallbacks => Pending("tick")' = 0 /\ rafId' = NoHandle)]_vars

C4_Witness ==
  /\ last \in EnterCallbacks /\ prev \in EnterCallbacks
  /\ Pending("tick") = 1 /\ rafId \in Handles(rafQ)
  /\ now > FirstFrame

\* C5: a tick that begins with hovering false and both tilt axes within 0.01 of
\* their targets changes none of tX, tY, gX, gY and writes nothing.
C5_IdleSkip ==
  [][(/\ reelInit /\ ~hovering
      /\ Abs(tX - targX) * 100 < Scale
      /\ Abs(tY - targY) * 100 < Scale
      /\ last' \in TickMarks)
     => (/\ UNCHANGED <<springVars, outVars>>
         /\ last' \in {"tick:idle", "tick:hidden"})]_vars

C5_Witness ==
  /\ last = "tick:idle" /\ inputs > 0
  /\ cardTf # << >> /\ tX = targX /\ tY = targY /\ ~hovering

\* C6: after a tick with the stage visible, the glare and the shadow on screen are
\* the ones the current state gives (glare intensity and shadow opacity follow
\* the current hover flag), and an idle tick finds the glare at its target.
C6_IdleSkipPreserves ==
  (reelInit /\ last \in {"tick:idle", "tick:step"}) =>
    /\ glareBg \in {<< >>, GlareBg(gX, gY)}
    /\ shadowSt \in {<< >>, ShadowSt(tX, tY)}
    /\ (last = "tick:idle" =>
          Abs(gX - targGX) * 100 < Scale /\ Abs(gY - targGY) * 100 < Scale)

\* C7: a .reveal element's onEnter runs at most once however often its threshold
\* is crossed, it has run once the element has been past the threshold, and it
\* added class 'on' and scheduled the will-change release.
C7_RevealOnce ==
  \A e \in RevealEls :
    /\ revealFired[e] <= 1
    /\ (revealTrig[e] # "none" /\ past[e] => revealFired[e] = 1)
    /\ (revealFired[e] = 1 =>
          revealOn[e] /\ (e \in timers \/ willChange[e] = "auto"))
    /\ (revealFired[e] = 0 => ~revealOn[e] /\ e \notin timers /\ willChange[e] = "css")

C7_Witness ==
  /\ last = "crossDown" /\ prev = "crossUp"
  /\ past["r1"] /\ revealFired["r1"] = 1 /\ willChange["r1"] = "auto"
  /\ \A e \in RevealEls \ {"r1"} : ~past[e] /\ revealFired[e] = 0

\* the text step must show for target t after el ms, by the definition of floor:
\* the integer v with v <= t * (1 - (1 - p)^3) < v + 1, p = min(el / dur, 1)
CountUpShows(v, t, el) ==
  LET e == IF el > dur THEN dur ELSE el
      d == dur \div 100
      r == (dur - e) \div 100
  IN  /\ e % 100 = 0
      /\ v * (d * d * d) <= t * (d * d * d - r * r * r)
      /\ t * (d * d * d - r * r * r) < (v + 1) * (d * d * d)
      /\ (el = 0 => v = 0)
      /\ (el >= dur => v = t)

\* C8 (as claimed): every step shows floor(target * (1 - (1 - p)^3)), 0 at elapsed 0
\* and target from elapsed 2200 on, and never less than the step before.
C8_CountUpValue ==
  [][last' = "step" =>
       LET e == Head(frameQ).el
           t == parseInt(dataCount[e]).v
       IN  /\ CountUpShows(statText'[e][1], t, now - startTs'[e])
           /\ (statText[e] # << >> => statText'[e][1] >= statText[e][1])]_vars

\* C8 (amended): the same, with the value non-decreasing for a target above zero
\* and non-increasing for a target below zero.
C8_CountUpValueSigned ==
  [][last' = "step" =>
       LET e == Head(frameQ).el
           t == parseInt(dataCount[e]).v
       IN  /\ CountUpShows(statText'[e][1], t, now - startTs'[e])
           /\ (statText[e] # << >> /\ t > 0 => statText'[e][1] >= statText[e][1])
           /\ (statText[e] # << >> /\ t < 0 => statText'[e][1] <= statText[e][1])]_vars

C8_Witness ==
  /\ last = "step"
  /\ dataCount["s1"] = <<"1", "2">> /\ statText["s1"] = <<12, "+">>
  /\ dataCount["s2"] = <<"-", "3">> /\ statText["s2"] = <<-3, "">>
  /\ now - startTs["s1"] >= dur

\* C9: an arrow key moves its tilt target by 4, saturating at -16 and 16, and
\* leaves both targets within [-16, 16].
C9_KeyboardClamp ==
  [][(reelInit /\ last' \in ArrowKeys) =>
       LET hi == 16 * Scale
           sat(v) == IF v > hi THEN hi ELSE IF v < -hi THEN -hi ELSE v
       IN  /\ (last' = "ArrowRight" => targY' = sat(targY + 4 * Scale))
           /\ (last' = "ArrowLeft" => targY' = sat(targY - 4 * Scale))
           /\ (last' = "ArrowUp" => targX' = sat(targX + 4 * Scale))
           /\ (last' = "ArrowDown" => targX' = sat(targX - 4 * Scale))
           /\ -hi <= targX' /\ targX' <= hi
           /\ -hi <= targY' /\ targY' <= hi]_vars

\* four presses from 0 have reached 16 and the fifth has left it there
C9_Witness ==
  /\ inputs = 5 /\ last = "ArrowRight" /\ prev = "ArrowRight"
  /\ targY = 16 * Scale /\ targX = restTiltX * Scale

\* C10: booted with reduced motion, the page never has an animateRing or a tick
\* callback queued or run, and no scroll-reveal trigger is registered.
C10_ReducedMotionNoSprings ==
  reducedMotion =>
    /\ Pending("animateRing") = 0 /\ Pending("tick") = 0
    /\ last \notin TickMarks \cup {"animateRing"}
    /\ \A e \in RevealEls : revealTrig[e] = "none"

\* C11: booted with reduced motion, the tilt module has no listener, no scroll
\* trigger and no tick callback, scroll reveal has no trigger, the hero timeline
\* is not started, and every hero entrance element has inline opacity 1 and
\* inline transform none.
C11_ReducedMotionBoot ==
  reducedMotion =>
    /\ ~reelInit /\ Pending("tick") = 0 /\ last \notin TickMarks
    /\ \A e \in RevealEls : revealTrig[e] = "none"
    /\ ~heroSt.timeline
    /\ \A h \in HeroBlocks \cup HeroSpans :
         heroSt.style[h] = [opacity |-> "1", transform |-> "none"]

(***************************************************************************)
(* Cursor, reel and stats on pages that lack some of their elements         *)
(***************************************************************************)
MaxFramesDom == 2
MaxInputsDom == 1

\* one representative of every kind of element the modules look up
Optional == {"curRing", "reelCard", "reelGlare", "reelShadow", "dd1", "heroBottom"}

InitDom ==
  \E gone \in SUBSET Optional :
    Boot(FALSE, FALSE, FALSE, FALSE, AllEls \ gone, DefaultAttrs)

NextDom ==
  \/ DocMouseMove(<<100, 100>>)
  \/ animateRing
  \/ ReelScroll("onEnter")
  \/ (inputs < MaxInputsDom /\ StageMouseEnter)
  \/ (inputs < MaxInputsDom /\ StageMouseMove(<<100, 100>>))
  \/ (inputs < MaxInputsDom /\ CardKeyDown("ArrowRight"))
  \/ StatsEnter
  \/ (now < FirstFrame + MaxFramesDom * 16 /\ FrameStart(16))
  \/ tick
  \/ step

SpecDom == InitDom /\ [][NextDom]_vars

\* C12: whatever elements are absent, each module either set nothing up (no
\* listener, no trigger, no callback) or no handler and no frame callback of it
\* ever throws.
C12_MissingElements ==
  /\ ~threw
  /\ (~cursorInit => Pending("animateRing") = 0)
  /\ (~reelInit => Pending("tick") = 0)
  /\ (statsTrig = "none" => Pending("step") = 0)

(***************************************************************************)
(* Cursor and reel together on a desktop page whose tab is backgrounded and *)
(* foregrounded                                                             *)
(***************************************************************************)
MaxFramesPage == 1
MaxInputsPage == 1

InitPage ==
  \E hid \in BOOLEAN : Boot(FALSE, FALSE, FALSE, hid, AllEls, DefaultAttrs)

NextPage ==
  \/ DocMouseMove(<<100, 100>>)
  \/ VisibilityChange
  \/ \E cb \in EnterCallbacks \cup LeaveCallbacks : ReelScroll(cb)
  \/ (inputs < MaxInputsPage /\ StageMouseEnter)
  \/ (inputs < MaxInputsPage /\ StageMouseLeave)
  \/ (inputs < MaxInputsPage /\ StageMouseMove(<<100, 100>>))
  \/ (inputs < MaxInputsPage /\ CardKeyDown("ArrowRight"))
  \/ (now < FirstFrame + MaxFramesPage * 16 /\ FrameStart(16))
  \/ animateRing
  \/ tick

SpecPage == InitPage /\ [][NextPage]_vars

MaxInputsSpring == 2
MaxFramesInput == 2
MaxFramesSpring == 200

EarlyInput == inputs < MaxInputsSpring /\ now < FirstFrame + MaxFramesInput * 16

FrameSpring == now < FirstFrame + MaxFramesSpring * 16 /\ FrameStart(16)

NextSpring ==
  \/ ReelScroll("onEnter")
  \/ (EarlyInput /\ StageMouseEnter)
  \/ (EarlyInput /\ StageMouseLeave)
  \/ (EarlyInput /\ StageMouseMove(<<100, 100>>))
  \/ (EarlyInput /\ CardKeyDown("ArrowRight"))
  \/ FrameSpring
  \/ tick

\* the browser keeps delivering frames to a shown document and runs the
\* callbacks of a frame it has begun
SpecSpring ==
  InitReel /\ [][NextSpring]_vars /\ WF_vars(FrameSpring) /\ WF_vars(tick)

Near(a, b) == Abs(a - b) * 100 < Scale

TiltAtRest ==
  visible => (Near(tX, targX) /\ Near(tY, targY))

\* C14: with the stage in view, once the inputs have stopped the displayed tilt
\* comes within 0.01 degree of its targets on both axes and stays there, hovering
\* or not.
C14_TiltConverges == <>[]TiltAtRest

\* still hovering over (100,100) of the 400x300 stage, whose targets are 7.33
\* and -8: the tilt has travelled from rest to within 0.01 of them
C14_Witness ==
  /\ visible /\ hovering /\ last = "tick:step"
  /\ targX = MoveTargX(<<100, 100>>) /\ targY = MoveTargY(<<100, 100>>)
  /\ Abs(targX - RDiv(7333 * Scale, 1000)) <= 1 /\ targY = -8 * Scale
  /\ tY # 0 /\ Near(tX, targX) /\ Near(tY, targY) /\ cardTf = <<tX, tY>>

(***************************************************************************)
(* lerp on its own                                                          *)
(***************************************************************************)
LerpRange == 25
\* the factors the page uses (0.05, 0.07, 0.09, 0.12) and others of (0,1), in
\* hundredths
Factors == {springRest, springGlare, springHover, springRing, 1, 50, 99}

InitLerp == Boot(FALSE, TRUE, FALSE, FALSE, AllEls, DefaultAttrs)

\* lerp(a, b, t) is called once and its result kept
LerpCall(a, b, t) ==
  /\ probe = << >>
  /\ probe' = [a |-> a, b |-> b, t |-> t, out |-> lerp(a, b, t)]
  /\ Mark("lerp")
  /\ UNCHANGED <<reducedMotion, hoverNone, mobile, dom, hidden, rafQ, frameQ, now,
                 inputs, cursorVars, reelVars, revealVars, statVars, playState, heroSt>>

NextLerp ==
  \E a \in -LerpRange .. LerpRange, b \in -LerpRange .. LerpRange, t \in Factors :
    LerpCall(a, b, t)

SpecLerp == InitLerp /\ [][NextLerp]_vars

StepsIn(q, e) == Cardinality({i \in DOMAIN q : q[i].fn = "step" /\ q[i].el = e})
PendingStep(e) == StepsIn(rafQ, e) + StepsIn(frameQ, e)

\* C16: for a stat element with a non-zero target, countUp runs at most once and
\* has at most one step callback pending; once a step has run at elapsed >= 2200
\* no step is pending any more, and when none is pending after the start the
\* text is the target followed by the suffix.
C16_CountUpTerminates ==
  \A e \in StatEls :
    (~parseInt(dataCount[e]).nan /\ parseInt(dataCount[e]).v # 0) =>
      /\ statRuns[e] <= 1
      /\ PendingStep(e) <= 1
      /\ (startTs[e] # 0 /\ now - startTs[e] >= dur /\ StepsIn(frameQ, e) = 0
            => PendingStep(e) = 0)
      /\ (startTs[e] # 0 /\ PendingStep(e) = 0
            => /\ now - startTs[e] >= dur
               /\ statText[e] = <<parseInt(dataCount[e]).v, StatSuffix[e]>>)

\* the count-up to 12 has run through several frames and ended: its last step
\* wrote 12 and queued nothing
C16_Witness ==
  /\ last = "step" /\ dataCount["s1"] = <<"1", "2">>
  /\ statRuns["s1"] = 1 /\ startTs["s1"] # 0 /\ now - startTs["s1"] > dur
  /\ PendingStep("s1") = 0 /\ statText["s1"] = <<12, StatSuffix["s1"]>>

\* C17: for a stat element whose data-count is missing, not a number or zero,
\* countUp never queues a step callback and the element's text is never written.
C17_InvalidTargetSkipped ==
  \A e \in StatEls :
    (parseInt(dataCount[e]).nan \/ parseInt(dataCount[e]).v = 0) =>
      /\ PendingStep(e) = 0 /\ startTs[e] = 0
      /\ statText[e] = << >>

\* the container has entered view and the other element has counted up, while
\* the element with data-count="0" was left alone
C17_Witness ==
  /\ statsTrig = "killed" /\ last = "step"
  /\ dataCount["s1"] = <<"0">> /\ statText["s1"] = << >> /\ PendingStep("s1") = 0
  /\ dataCount["s2"] = <<"7">> /\ statText["s2"] = <<7, StatSuffix["s2"]>>

\* C18: a step that is not a frame callback's spring step (a pointer, key,
\* visibility or scroll handler, or the start of a frame) leaves the spring
\* currents rx, ry, tX, tY, gX, gY and everything drawn from them unchanged, and
\* the cursor dot is written by the document's mousemove handler only.
C18_SpringWriteDiscipline ==
  [][/\ (last' \notin {"animateRing", "tick:step"} =>
           UNCHANGED <<rx, ry, tX, tY, gX, gY, ringTf, cardTf, glareBg, shadowSt, ddTf>>)
     /\ (last' # "docmousemove" => dotTf' = dotTf)]_vars

\* the pointer has moved with the tilt spring under way: the dot is at the
\* pointer, the ring and the tilt are where the last frame left them
C18_Witness ==
  /\ last = "docmousemove" /\ dotTf = <<100 * Scale, 100 * Scale>>
  /\ mx = 100 * Scale /\ rx # mx /\ ringTf = <<rx, ry>>
  /\ tY # 0 /\ tY # targY /\ cardTf = <<tX, tY>>

\* C19: booted with reduced motion, the animations applyReducedMotion paused
\* (.ticker-track, .testi-track, .blob) are paused in every later state, however
\* often the tab is hidden and shown.
C19_ReducedMotionStaysPaused ==
  reducedMotion => \A d \in PausedByReducedMotion : playState[d] = "paused"

\* C20: on the card, a keydown of a key that is no arrow leaves targX and targY
\* unchanged, a left or right arrow leaves targX unchanged and an up or down
\* arrow leaves targY unchanged.
C20_NonArrowKeysInert ==
  [][(reelInit /\ last' \in Keys) =>
       /\ (last' \notin ArrowKeys => (targX' = targX /\ targY' = targY))
       /\ (last' \in {"ArrowLeft", "ArrowRight"} => targX' = targX)
       /\ (last' \in {"ArrowUp", "ArrowDown"} => targY' = targY)]_vars

====
